---- MODULE Spec2Model ----
(***************************************************************************)
(* Relaxed witness complex construction (Gudhi).                           *)
(*                                                                         *)
(* Two builders are modelled on the same input:                            *)
(*   - the constructor Relaxed_witness_complex (per-dimension rescanning   *)
(*     with the recursive add_all_faces_of_dimension), step by step with   *)
(*     an explicit call stack;                                             *)
(*   - Witness_complex_new::create_complex (fill_vertices, fill_edges,     *)
(*     fill_simplices with the simplex -> witnesses association maps).     *)
(*                                                                         *)
(* Distances, alpha and filtration values are doubles in the code; they    *)
(* are integers here (a fixed-point unit), with Infinity a value above     *)
(* every distance.  A simplex of the complex is the set of its vertices    *)
(* and a complex is a function from its simplices to filtration values.    *)
(***************************************************************************)
EXTENDS Integers, Sequences, FiniteSets, TLC

\* ---------------------------------------------------------------- bounds
MaxW == 2        \* witnesses in the nearest-landmark table
MaxNbL == 3      \* landmarks (nbL)
MaxDist == 2     \* distances are 1..MaxDist
MaxAlpha == 1    \* alpha is 0..MaxAlpha
MaxLimD == 2     \* limD / limit_dimension is 0..MaxLimD

\* std::numeric_limits<double>::infinity()
Infinity == 1000

VARIABLES
  table,        \* nearest-landmark table: table[w][i] = [l |-> landmark, d |-> distance]
  nbL,          \* number of landmarks
  alpha,        \* relaxation parameter
  limD,         \* maximal dimension asked for
  pc,           \* position in the constructor, then in create_complex
  sc,           \* the complex of the constructor: simplex -> filtration
  sc_dim,       \* value given to sc.set_dimension, -1 before
  active_w,     \* ActiveWitnessList of the constructor (witness ids)
  aw_it,        \* iterator into active_w (index, Len+1 = end)
  k,            \* current dimension of the constructor
  stack,        \* call stack of add_all_faces_of_dimension
  simplex,      \* the candidate vertex stack (std::vector<int>& simplex)
  ret,          \* value returned by the last finished call
  complex,      \* the complex handed to create_complex: simplex -> filtration
  max_alpha_square, \* create_complex's relaxation argument
  aw_list,      \* active_witnesses of create_complex (witness ids)
  counter,      \* Active_witness::counter_ of every witness
  prev_dim_map, \* simplex -> list of Witness_for_simplex (last_it, witness, limit_distance)
  dim1_map,     \* the edge map fill_edges builds
  map_pos,      \* fill_edges, second loop: entries of dim0_map already processed
  cc_k,         \* create_complex's k
  cc_result,    \* "none" until create_complex returns, then TRUE or FALSE
  cc_dim,       \* value given to complex.set_dimension, -1 before
  earlier_runs  \* results of earlier constructor runs on the same table: [alpha, sc]

inputs == <<table, nbL, alpha, limD>>
ctorVars == <<sc, sc_dim, active_w, aw_it, k, stack, simplex, ret>>
ccVars == <<complex, max_alpha_square, aw_list, counter, prev_dim_map, dim1_map,
            map_pos, cc_k, cc_result, cc_dim>>
vars == <<inputs, pc, ctorVars, ccVars, earlier_runs>>

\* ------------------------------------------------------------- helpers
Max(a, b) == IF a >= b THEN a ELSE b
Min(a, b) == IF a <= b THEN a ELSE b
Range(s) == {s[i] : i \in DOMAIN s}
Dim(S) == Cardinality(S) - 1
EmptyComplex == [S \in {} |-> 0]

\* Lists of (landmark, distance): distinct landmarks of 0..n-1, ascending distance
SortedLists(n, dists) ==
  UNION {{s \in [1..m -> [l : 0..(n - 1), d : dists]] :
            /\ \A i, j \in 1..m : i < j => s[i].l # s[j].l /\ s[i].d <= s[j].d}
         : m \in 0..n}

Tables(n, dists) == UNION {[1..w -> SortedLists(n, dists)] : w \in 0..MaxW}

\* ---------------------------------------------- the complex container
\* find(simplex) != null_simplex()
Find(cx, vertices) ==
  /\ Len(vertices) > 0
  /\ Range(vertices) \in DOMAIN cx

\* insert_simplex(simplex, filtration): an already present simplex is left alone
InsertSimplex(cx, vertices, filtration) ==
  IF Range(vertices) \in DOMAIN cx
  THEN cx
  ELSE (Range(vertices) :> filtration) @@ cx

\* ----------------------------------------------------- all_faces_in
\* facet of `vertices` without the vertex at position not_it
Facet(vertices, not_it) ==
  [i \in 1..(Len(vertices) - 1) |-> IF i < not_it THEN vertices[i] ELSE vertices[i + 1]]

RECURSIVE AllFacesInFrom(_, _, _, _)
AllFacesInFrom(cx, vertices, not_it, filtration_value) ==
  IF not_it > Len(vertices)
  THEN [ok |-> TRUE, fv |-> filtration_value]
  ELSE LET facet == Facet(vertices, not_it)
       IN IF ~Find(cx, facet)
          THEN [ok |-> FALSE, fv |-> filtration_value]
          ELSE AllFacesInFrom(cx, vertices, not_it + 1,
                              Max(filtration_value, cx[Range(facet)]))

\* all_faces_in that takes every facet to be present
all_faces_in_unchecked(cx, vertices, filtration_value) ==
  [ok |-> TRUE, fv |-> filtration_value]

\* all_faces_in that leaves *filtration_value as it was given
all_faces_in_nomax(cx, vertices, filtration_value) ==
  [ok |-> AllFacesInFrom(cx, vertices, 1, filtration_value).ok, fv |-> filtration_value]

all_faces_in(cx, vertices, filtration_value) ==
  AllFacesInFrom(cx, vertices, 1, filtration_value)

\* ------------------------------------------------------------ initial state
EmptyMap == [S \in {} |-> <<>>]

InitState(t, n, a, d) ==
  /\ table = t /\ nbL = n /\ alpha = a /\ limD = d
  /\ pc = "ctor"
  /\ sc = EmptyComplex /\ sc_dim = -1
  /\ active_w = <<>> /\ aw_it = 1 /\ k = 1
  /\ stack = <<>> /\ simplex = <<>> /\ ret = FALSE
  /\ complex = EmptyComplex /\ max_alpha_square = 0
  /\ aw_list = <<>> /\ counter = <<>>
  /\ prev_dim_map = EmptyMap /\ dim1_map = EmptyMap /\ map_pos = 0
  /\ cc_k = 2 /\ cc_result = "none" /\ cc_dim = -1
  /\ earlier_runs = <<>>

Init ==
  \E n \in 1..MaxNbL : \E t \in Tables(n, 1..MaxDist) :
    \E a \in 0..MaxAlpha : \E d \in 0..MaxLimD :
      InitState(t, n, a, d)

\* ------------------------------------- Relaxed_witness_complex constructor
nbW == Len(table)
CurW == active_w[aw_it]
ListEnd == Len(table[CurW]) + 1      \* knn[*aw_it].end()
Top == stack[Len(stack)]

\* an activation whose will_be_active starts as true
NewFrameActive(dim, norelax_dist, curr) ==
  [dim |-> dim, norelax_dist |-> norelax_dist, curr |-> curr, it |-> curr,
   will_be_active |-> TRUE, at |-> "entry"]

NewFrame(dim, norelax_dist, curr) ==
  [dim |-> dim, norelax_dist |-> norelax_dist, curr |-> curr, it |-> curr,
   will_be_active |-> FALSE, at |-> "entry"]

\* a call of add_all_faces_of_dimension made with the cursor where the
\* caller's own cursor stands (d_it, l_it instead of d_it+1, l_it+1)
CallSameCursor(caller, callee) ==
  Append([stack EXCEPT ![Len(stack)] = caller],
         [callee EXCEPT !.curr = caller.it, !.it = caller.it])

\* the caller's frame becomes `caller`, the callee's frame goes on top
Call(caller, callee) == Append([stack EXCEPT ![Len(stack)] = caller], callee)

\* lines 145-155: the vertices, the active list, k = 1
RECURSIVE InsertVertices(_, _, _)
InsertVertices(cx, i, n) ==
  IF i = n THEN cx
  ELSE InsertVertices(InsertSimplex(cx, <<i>>, 0), i + 1, n)

CtorInit ==
  /\ pc = "ctor"
  /\ sc' = InsertVertices(sc, 0, nbL)
  /\ k' = 1
  /\ active_w' = [i \in 1..nbW |-> i]
  /\ pc' = "round"
  /\ UNCHANGED <<inputs, sc_dim, aw_it, stack, simplex, ret, ccVars, earlier_runs>>

\* the guard without k <= limD
RoundGuardNoLimD(active, dim, lim, n) == active # <<>> /\ dim < n

\* line 156: the guard of the round loop
RoundGuard(active, dim, lim, n) == active # <<>> /\ dim <= lim /\ dim < n

\* lines 156-158 and 176
RoundStart ==
  /\ pc = "round"
  /\ IF RoundGuard(active_w, k, limD, nbL)
     THEN /\ aw_it' = 1
          /\ pc' = "inner"
          /\ UNCHANGED sc_dim
     ELSE /\ sc_dim' = limD
          /\ pc' = "cc_enter"
          /\ UNCHANGED aw_it
  /\ UNCHANGED <<inputs, sc, active_w, k, stack, simplex, ret, ccVars, earlier_runs>>

\* lines 159-168 and 174: next active witness, or the end of the round
NextWitness ==
  /\ pc = "inner"
  /\ IF aw_it # Len(active_w) + 1
     THEN /\ stack' = <<NewFrame(k, Infinity, 1)>>
          /\ simplex' = <<>>
          /\ pc' = "rec"
          /\ UNCHANGED k
     ELSE /\ k' = k + 1
          /\ pc' = "round"
          /\ UNCHANGED <<stack, simplex>>
  /\ UNCHANGED <<inputs, sc, sc_dim, active_w, aw_it, ret, ccVars, earlier_runs>>

\* an erase that removes the record at pos and every record after it
EraseAtRest(list, pos) == SubSeq(list, 1, pos - 1)

\* an erase that removes the first record instead of the one at pos
EraseAtFirst(list, pos) == [i \in 1..(Len(list) - 1) |-> list[i + 1]]

\* an erase that puts the erased witness back at the end of the list
EraseAtPutBack(list, pos) ==
  [i \in 1..Len(list) |->
     IF i < pos THEN list[i] ELSE IF i < Len(list) THEN list[i + 1] ELSE list[pos]]

\* active_w.erase(aw_it++)
EraseAt(list, pos) == [i \in 1..(Len(list) - 1) |-> IF i < pos THEN list[i] ELSE list[i + 1]]

\* lines 169-172
AfterCall ==
  /\ pc = "after_call"
  /\ IF ~ret
     THEN active_w' = EraseAt(active_w, aw_it) /\ UNCHANGED aw_it
     ELSE aw_it' = aw_it + 1 /\ UNCHANGED active_w
  /\ pc' = "inner"
  /\ UNCHANGED <<inputs, sc, sc_dim, k, stack, simplex, ret, ccVars, earlier_runs>>

\* ------------------------------------------ add_all_faces_of_dimension
\* *d_it: past the end of the vector the value read is arbitrary
ReadDistance(it) ==
  IF it < ListEnd THEN {table[CurW][it].d} ELSE {0, Infinity}

\* the guard without the test on the distance
LoopGuardNoTest(d, a, norelax_dist, it, end) == it # end

\* the guard with alpha added instead of subtracted
LoopGuardPlus(d, a, norelax_dist, it, end) == d + a <= norelax_dist /\ it # end

\* lines 201 and 224: *d_it - alpha <= norelax_dist && l_it != end
LoopGuard(d, a, norelax_dist, it, end) == d - a <= norelax_dist /\ it # end

\* a return that reports false whatever the call found
ReturnFalse(r) ==
  /\ stack' = SubSeq(stack, 1, Len(stack) - 1)
  /\ ret' = FALSE
  /\ pc' = IF Len(stack) = 1 THEN "after_call" ELSE "rec"

\* a return that reports true whatever the call found
ReturnTrue(r) ==
  /\ stack' = SubSeq(stack, 1, Len(stack) - 1)
  /\ ret' = TRUE
  /\ pc' = IF Len(stack) = 1 THEN "after_call" ELSE "rec"

\* return r: the frame is popped, the top-level call goes back to the constructor
Return(r) ==
  /\ stack' = SubSeq(stack, 1, Len(stack) - 1)
  /\ ret' = r
  /\ pc' = IF Len(stack) = 1 THEN "after_call" ELSE "rec"

\* lines 195-199
Entry ==
  /\ pc = "rec" /\ Top.at = "entry"
  /\ IF Top.curr = ListEnd
     THEN Return(FALSE)
     ELSE /\ stack' = [stack EXCEPT ![Len(stack)].at = "loop"]
          /\ UNCHANGED <<ret, pc>>
  /\ UNCHANGED <<inputs, sc, sc_dim, active_w, aw_it, k, simplex, ccVars, earlier_runs>>

\* the threshold never slides in the dim > 0 loop
SlideSkipNever(d, norelax_dist) == norelax_dist

\* the threshold set to d whatever it was
SlideSkipAlways(d, norelax_dist) == d

\* lines 213-214: the threshold after the landmark at distance d was passed
SlideSkip(d, norelax_dist) == IF d <= norelax_dist THEN d ELSE norelax_dist

\* the skip branch entered without the pop_back
SkipBranchNoPop(f, popped) ==
  LET d == table[CurW][f.it].d
      nd == IF d <= f.norelax_dist THEN d ELSE f.norelax_dist
  IN /\ simplex' = simplex
     /\ stack' = Append([stack EXCEPT ![Len(stack)] =
                           [f EXCEPT !.norelax_dist = nd, !.at = "skip"]],
                        NewFrame(f.dim - 1, nd, f.it + 1))

\* lines 211-221: pop, slide the threshold, recurse without the landmark
SkipBranch(f, popped) ==
  LET d == table[CurW][f.it].d
      nd == SlideSkip(d, f.norelax_dist)
  IN /\ simplex' = popped
     /\ stack' = Call([f EXCEPT !.norelax_dist = nd, !.at = "skip"],
                      NewFrame(f.dim - 1, nd, f.it + 1))

\* lines 200-210: one evaluation of the loop guard for dim > 0 and, when it
\* holds, the body up to the first recursive call
LoopDim ==
  /\ pc = "rec" /\ Top.at = "loop" /\ Top.dim > 0
  /\ \E d \in ReadDistance(Top.it) :
       IF LoopGuard(d, alpha, Top.norelax_dist, Top.it, ListEnd)
       THEN LET pushed == Append(simplex, table[CurW][Top.it].l)
            IN /\ IF Find(sc, pushed)
                  THEN /\ simplex' = pushed
                       /\ stack' = Call([Top EXCEPT !.at = "inc"],
                                        NewFrame(Top.dim - 1, Top.norelax_dist, Top.it + 1))
                  ELSE SkipBranch(Top, simplex)
               /\ UNCHANGED <<ret, pc>>
       ELSE /\ Return(Top.will_be_active)
            /\ UNCHANGED simplex
  /\ UNCHANGED <<inputs, sc, sc_dim, active_w, aw_it, k, ccVars, earlier_runs>>

\* lines 204-221: the include call has returned
AfterInclude ==
  /\ pc = "rec" /\ Top.at = "inc"
  /\ SkipBranch([Top EXCEPT !.will_be_active = ret \/ Top.will_be_active],
                SubSeq(simplex, 1, Len(simplex) - 1))
  /\ UNCHANGED <<inputs, pc, sc, sc_dim, active_w, aw_it, k, ret, ccVars, earlier_runs>>

\* lines 215-222: the skip call has returned, ++l_it, ++d_it
AfterSkip ==
  /\ pc = "rec" /\ Top.at = "skip"
  /\ stack' = [stack EXCEPT ![Len(stack)] =
                 [Top EXCEPT !.will_be_active = ret \/ Top.will_be_active,
                             !.it = Top.it + 1, !.at = "loop"]]
  /\ UNCHANGED <<inputs, pc, sc, sc_dim, active_w, aw_it, k, simplex, ret, ccVars, earlier_runs>>

\* the distance itself taken for the relaxation
RelaxationDistance(d, norelax_dist) == d

\* no relaxation is ever counted
RelaxationNone(d, norelax_dist) == 0

\* lines 226-229: relaxation needed by the last landmark
Relaxation(d, norelax_dist) == IF d > norelax_dist THEN d - norelax_dist ELSE 0

\* the threshold never slides in the leaf loop
SlideLeafNever(d, norelax_dist) == norelax_dist

\* lines 236-237
SlideLeaf(d, norelax_dist) == IF d < norelax_dist THEN d ELSE norelax_dist

\* lines 223-238: one evaluation of the loop guard for dim = 0 and, when it
\* holds, one whole iteration
LoopLeaf ==
  /\ pc = "rec" /\ Top.at = "loop" /\ Top.dim = 0
  /\ \E d \in ReadDistance(Top.it) :
       IF LoopGuard(d, alpha, Top.norelax_dist, Top.it, ListEnd)
       THEN LET pushed == Append(simplex, table[CurW][Top.it].l)
                faces == all_faces_in(sc, pushed, Relaxation(d, Top.norelax_dist))
            IN /\ sc' = IF faces.ok THEN InsertSimplex(sc, pushed, faces.fv) ELSE sc
               /\ stack' = [stack EXCEPT ![Len(stack)] =
                              [Top EXCEPT !.will_be_active = faces.ok \/ Top.will_be_active,
                                          !.norelax_dist = SlideLeaf(d, Top.norelax_dist),
                                          !.it = Top.it + 1]]
               /\ UNCHANGED <<ret, pc>>
       ELSE /\ Return(Top.will_be_active)
            /\ UNCHANGED sc
  /\ UNCHANGED <<inputs, sc_dim, active_w, aw_it, k, simplex, ccVars, earlier_runs>>

\* ---------------------------------- Witness_complex_new::create_complex
\* complex.num_vertices()
NumVertices(cx) == Cardinality({S \in DOMAIN cx : Cardinality(S) = 1})

\* the complexes a caller hands over: an empty one, or one that holds a vertex
GivenComplexes == {EmptyComplex, ({0} :> 0)}

\* the checks without the one on max_alpha_square
RejectedNonEmptyOnly(given, a) == NumVertices(given) > 0

\* lines 504-515: the argument checks (limit_dimension < 0 never holds for a
\* std::size_t)
Rejected(given, a) == NumVertices(given) > 0 \/ a < 0

\* lines 504-518: the argument checks and the list of active witnesses
CreateComplexEnter ==
  /\ pc = "cc_enter"
  /\ \E given \in GivenComplexes : \E a \in {alpha, -1} :
       /\ complex' = given
       /\ max_alpha_square' = a
       /\ IF Rejected(given, a)
          THEN /\ cc_result' = FALSE
               /\ pc' = "done"
               /\ UNCHANGED <<aw_list, counter>>
          ELSE /\ aw_list' = [i \in 1..nbW |-> i]
               /\ counter' = [i \in 1..nbW |-> 0]
               /\ pc' = "fill_vertices"
               /\ UNCHANGED cc_result
  /\ UNCHANGED <<inputs, ctorVars, prev_dim_map, dim1_map, map_pos, cc_k, cc_dim, earlier_runs>>

\* the guard with alpha ignored
WindowGuardNoAlpha(list, it, alpha2, norelax_dist2) ==
  it # Len(list) + 1 /\ list[it].d <= norelax_dist2

\* lines 690, 702, 742 and 761:
\* l_it != end && l_it->second - alpha2 <= norelax_dist2
WindowGuard(list, it, alpha2, norelax_dist2) ==
  it # Len(list) + 1 /\ list[it].d - alpha2 <= norelax_dist2

\* lines 686-696: the landmarks of one witness, from position it on
RECURSIVE InsertWitnessVertices(_, _, _, _, _, _)
InsertWitnessVertices(cx, list, it, filtration_value, norelax_dist2, alpha2) ==
  IF WindowGuard(list, it, alpha2, norelax_dist2)
  THEN LET relaxed == list[it].d > norelax_dist2
           fv == IF relaxed THEN list[it].d - norelax_dist2 ELSE filtration_value
           nd == IF relaxed THEN norelax_dist2 ELSE list[it].d
       IN InsertWitnessVertices(InsertSimplex(cx, <<list[it].l>>, fv),
                                list, it + 1, fv, nd, alpha2)
  ELSE cx

\* lines 685-697: first loop of fill_vertices over the active witnesses
RECURSIVE InsertAllVertices(_, _, _, _)
InsertAllVertices(cx, aws, i, alpha2) ==
  IF i > Len(aws) THEN cx
  ELSE InsertAllVertices(
         InsertWitnessVertices(cx, table[aws[i]], 1, 0, Infinity, alpha2),
         aws, i + 1, alpha2)

\* (*sw_map)[sk].emplace_back(Witness_list(l_it, aw_it, norelax_dist2))
EmplaceBack(map, key, last_it, w, limit_distance) ==
  LET entry == [last_it |-> last_it, witness |-> w, limit_distance |-> limit_distance]
  IN IF key \in DOMAIN map
     THEN [map EXCEPT ![key] = Append(map[key], entry)]
     ELSE (key :> <<entry>>) @@ map

\* lines 699-711 and 761-773: the entries one witness adds to a map for the
\* simplices base + landmark, from position it on; m = [map, counter]
RECURSIVE MapWitness(_, _, _, _, _, _)
MapWitness(m, base, w, it, norelax_dist2, alpha2) ==
  LET list == table[w]
  IN IF WindowGuard(list, it, alpha2, norelax_dist2)
     THEN MapWitness(
            [map |-> EmplaceBack(m.map, base \cup {list[it].l}, it, w, norelax_dist2),
             counter |-> [m.counter EXCEPT ![w] = @ + 1]],
            base, w, it + 1,
            IF list[it].d < norelax_dist2 THEN list[it].d ELSE norelax_dist2,
            alpha2)
     ELSE m

\* lines 698-712: second loop of fill_vertices
RECURSIVE MapAllVertices(_, _, _, _)
MapAllVertices(m, aws, i, alpha2) ==
  IF i > Len(aws) THEN m
  ELSE MapAllVertices(MapWitness(m, {}, aws[i], 1, Infinity, alpha2), aws, i + 1, alpha2)

\* lines 520-521, 672-713
FillVertices ==
  /\ pc = "fill_vertices"
  /\ complex' = InsertAllVertices(complex, aw_list, 1, max_alpha_square)
  /\ LET m == MapAllVertices([map |-> EmptyMap, counter |-> counter],
                             aw_list, 1, max_alpha_square)
     IN prev_dim_map' = m.map /\ counter' = m.counter
  /\ pc' = "fill_edges"
  /\ UNCHANGED <<inputs, ctorVars, max_alpha_square, aw_list, dim1_map, map_pos,
                 cc_k, cc_result, cc_dim, earlier_runs>>

\* the vertices of a set in increasing order
RECURSIVE SortedSeq(_)
SortedSeq(S) ==
  IF S = {} THEN <<>>
  ELSE LET m == CHOOSE x \in S : \A y \in S : x <= y
       IN <<m>> \o SortedSeq(S \ {m})

\* for (auto vw_pair: *dim0_map) for (auto w: vw_pair.second): the entries of
\* the vertex map in the order of the keys, each with its key
RECURSIVE EntriesFrom(_, _, _)
EntriesFrom(map, keys, i) ==
  IF i > Len(keys) THEN <<>>
  ELSE [j \in 1..Len(map[{keys[i]}]) |-> [key |-> {keys[i]}, w |-> map[{keys[i]}][j]]]
       \o EntriesFrom(map, keys, i + 1)

Entries(map) == EntriesFrom(map, SortedSeq(UNION (DOMAIN map)), 1)

\* lines 736-751: the edges one entry of the vertex map inserts
RECURSIVE InsertEntryEdges(_, _, _, _, _, _, _)
InsertEntryEdges(cx, key, list, it, filtration_value, norelax_dist2, alpha2) ==
  IF WindowGuard(list, it, alpha2, norelax_dist2)
  THEN LET relaxed == list[it].d > norelax_dist2
           fv == IF relaxed THEN list[it].d - norelax_dist2 ELSE filtration_value
           nd == IF relaxed THEN norelax_dist2 ELSE list[it].d
           vertices == SortedSeq(key) \o <<list[it].l>>
       IN InsertEntryEdges(InsertSimplex(cx, vertices, fv),
                           key, list, it + 1, fv, nd, alpha2)
  ELSE cx

\* lines 734-753: first loop of fill_edges
RECURSIVE InsertAllEdges(_, _, _, _)
InsertAllEdges(cx, entries, i, alpha2) ==
  IF i > Len(entries) THEN cx
  ELSE LET e == entries[i]
       IN InsertAllEdges(
            InsertEntryEdges(cx, e.key, table[e.w.witness], e.w.last_it + 1, 0,
                             e.w.limit_distance, alpha2),
            entries, i + 1, alpha2)

\* lines 540-541, 734-753
FillEdgesInsert ==
  /\ pc = "fill_edges"
  /\ complex' = InsertAllEdges(complex, Entries(prev_dim_map), 1, max_alpha_square)
  /\ dim1_map' = EmptyMap
  /\ map_pos' = 0
  /\ pc' = "fill_edges_map"
  /\ UNCHANGED <<inputs, ctorVars, max_alpha_square, aw_list, counter, prev_dim_map,
                 cc_k, cc_result, cc_dim, earlier_runs>>

\* an erase that removes the first active witness instead of w
EraseWitnessFirst(aws, w) == [i \in 1..(Len(aws) - 1) |-> aws[i + 1]]

\* aw_list.erase(w.witness_)
EraseWitness(aws, w) ==
  LET keep == {i \in 1..Len(aws) : aws[i] # w}
  IN [i \in 1..Cardinality(keep) |->
        aws[CHOOSE j \in keep : Cardinality({x \in keep : x < j}) = i - 1]]

\* lines 754-778: second loop of fill_edges, one entry of the vertex map
FillEdgesMap ==
  /\ pc = "fill_edges_map"
  /\ map_pos < Len(Entries(prev_dim_map))
  /\ LET e == Entries(prev_dim_map)[map_pos + 1]
         m == MapWitness([map |-> dim1_map, counter |-> counter], e.key, e.w.witness,
                         e.w.last_it + 1, e.w.limit_distance, max_alpha_square)
         decreased == [m.counter EXCEPT ![e.w.witness] = @ - 1]
     IN /\ dim1_map' = m.map
        /\ counter' = decreased
        /\ aw_list' = IF decreased[e.w.witness] = 0
                      THEN EraseWitness(aw_list, e.w.witness)
                      ELSE aw_list
  /\ map_pos' = map_pos + 1
  /\ UNCHANGED <<inputs, pc, ctorVars, complex, max_alpha_square, prev_dim_map,
                 cc_k, cc_result, cc_dim, earlier_runs>>

\* lines 542-543, 560: the edge map becomes prev_dim_map, k = 2
FillEdgesDone ==
  /\ pc = "fill_edges_map"
  /\ map_pos = Len(Entries(prev_dim_map))
  /\ prev_dim_map' = dim1_map
  /\ cc_k' = 2
  /\ pc' = "fill_simplices"
  /\ UNCHANGED <<inputs, ctorVars, complex, max_alpha_square, aw_list, counter,
                 dim1_map, map_pos, cc_result, cc_dim, earlier_runs>>

\* line 561: the guard of the dimension loop of create_complex
SimplicesGuard(aws, dim, limit_dimension) == aws # <<>> /\ dim <= 2

\* lines 561-567 and 786-877: fill_simplices inserts nothing and leaves
\* curr_dim_map empty; lines 569, 654-655 when the loop ends
FillSimplices ==
  /\ pc = "fill_simplices"
  /\ IF SimplicesGuard(aw_list, cc_k, limD)
     THEN /\ prev_dim_map' = EmptyMap
          /\ cc_k' = cc_k + 1
          /\ UNCHANGED <<pc, cc_result, cc_dim>>
     ELSE /\ cc_dim' = cc_k - 1
          /\ cc_result' = TRUE
          /\ pc' = "done"
          /\ UNCHANGED <<prev_dim_map, cc_k>>
  /\ UNCHANGED <<inputs, ctorVars, complex, max_alpha_square, aw_list, counter,
                 dim1_map, map_pos, earlier_runs>>

\* ------------------------------------------------------------ specification
Next ==
  \/ CtorInit \/ RoundStart \/ NextWitness \/ AfterCall
  \/ Entry \/ LoopDim \/ AfterInclude \/ AfterSkip \/ LoopLeaf
  \/ CreateComplexEnter \/ FillVertices \/ FillEdgesInsert \/ FillEdgesMap
  \/ FillEdgesDone \/ FillSimplices

Spec == Init /\ [][Next]_vars

\* The constructor run again on the same table, nbL and limD with a larger
\* (or equal) alpha, the complex of the first run being kept.
RerunLargerAlpha ==
  /\ pc = "cc_enter"
  /\ earlier_runs = <<>>
  /\ \E a2 \in alpha..MaxAlpha :
       /\ earlier_runs' = <<[alpha |-> alpha, sc |-> sc]>>
       /\ alpha' = a2
  /\ pc' = "ctor"
  /\ sc' = EmptyComplex /\ sc_dim' = -1
  /\ active_w' = <<>> /\ aw_it' = 1 /\ k' = 1
  /\ stack' = <<>> /\ simplex' = <<>> /\ ret' = FALSE
  /\ UNCHANGED <<table, nbL, limD, ccVars>>

NextAlpha == Next \/ RerunLargerAlpha

SpecAlpha == Init /\ [][NextAlpha]_vars

\* The constructor run again with the same nbL, alpha and limD on the table
\* with its witnesses in another order, the complex of the first run being
\* kept.
RerunPermuted ==
  /\ pc = "cc_enter"
  /\ earlier_runs = <<>>
  /\ \E p \in Permutations(1..Len(table)) :
       table' = [i \in 1..Len(table) |-> table[p[i]]]
  /\ earlier_runs' = <<[alpha |-> alpha, sc |-> sc]>>
  /\ pc' = "ctor"
  /\ sc' = EmptyComplex /\ sc_dim' = -1
  /\ active_w' = <<>> /\ aw_it' = 1 /\ k' = 1
  /\ stack' = <<>> /\ simplex' = <<>> /\ ret' = FALSE
  /\ UNCHANGED <<nbL, alpha, limD, ccVars>>

NextPermuted ==
  \/ CtorInit \/ RoundStart \/ NextWitness \/ AfterCall
  \/ Entry \/ LoopDim \/ AfterInclude \/ AfterSkip \/ LoopLeaf
  \/ RerunPermuted

SpecPermuted == Init /\ [][NextPermuted]_vars

\* The same rounds when no witness is ever erased: the constructor run again
\* on the same input, the complex of the first run being kept, with the
\* iterator moved on after every call whatever the call returned.
RerunNoErase ==
  /\ pc = "cc_enter"
  /\ earlier_runs = <<>>
  /\ earlier_runs' = <<[alpha |-> alpha, sc |-> sc]>>
  /\ pc' = "ctor"
  /\ sc' = EmptyComplex /\ sc_dim' = -1
  /\ active_w' = <<>> /\ aw_it' = 1 /\ k' = 1
  /\ stack' = <<>> /\ simplex' = <<>> /\ ret' = FALSE
  /\ UNCHANGED <<inputs, ccVars>>

AfterCallErasing ==
  /\ earlier_runs = <<>>
  /\ AfterCall

AfterCallKeeping ==
  /\ earlier_runs # <<>>
  /\ pc = "after_call"
  /\ aw_it' = aw_it + 1
  /\ pc' = "inner"
  /\ UNCHANGED <<inputs, sc, sc_dim, active_w, k, stack, simplex, ret, ccVars, earlier_runs>>

NextNoErase ==
  \/ CtorInit \/ RoundStart \/ NextWitness \/ AfterCallErasing \/ AfterCallKeeping
  \/ Entry \/ LoopDim \/ AfterInclude \/ AfterSkip \/ LoopLeaf
  \/ RerunNoErase

SpecNoErase == Init /\ [][NextNoErase]_vars

\* Zero-relaxation scenario: landmarks {0,1,2}, one witness
\* [(0,1.0),(1,1.5),(2,2.0)] (in tenths), alpha = 0, maximum dimension >= 2
InitZero ==
  \E d \in 2..(MaxLimD + 2) :
    InitState(<< <<[l |-> 0, d |-> 10], [l |-> 1, d |-> 15], [l |-> 2, d |-> 20]>> >>,
              3, 0, d)

SpecZero == InitZero /\ [][Next]_vars

\* Relaxation-window scenario: one witness [(0,1.0),(1,1.2),(2,5.0)] (in
\* tenths), alpha = 0.5
InitWindow ==
  \E d \in 0..MaxLimD :
    InitState(<< <<[l |-> 0, d |-> 10], [l |-> 1, d |-> 12], [l |-> 2, d |-> 50]>> >>,
              3, 5, d)

SpecWindow == InitWindow /\ [][Next]_vars

\* ------------------------------------------------------------------ claims
CtorFinished == pc \in {"cc_enter", "fill_vertices", "fill_edges", "fill_edges_map",
                        "fill_simplices", "done"}
Created == pc = "done" /\ cc_result = TRUE

\* every simplex of dimension >= 1 has its codimension-1 faces in the complex
Closed(cx) ==
  \A S \in DOMAIN cx : Dim(S) >= 1 => \A v \in S : (S \ {v}) \in DOMAIN cx

\* filtration(F) <= filtration(S) for every face F of S in the complex
Monotone(cx) ==
  \A S \in DOMAIN cx : \A F \in DOMAIN cx : F \subseteq S => cx[F] <= cx[S]

\* C1: at every point during and after the construction by the constructor,
\* every simplex of dimension >= 1 of sc has all its codimension-1 faces in sc.
C1_Closure == Closed(sc)

C1_Witness ==
  /\ pc = "rec"
  /\ \E S \in DOMAIN sc : Dim(S) = 2
  /\ Len(active_w) = 2 /\ aw_it = 2

\* C2: the complex create_complex produces is closed: every simplex has its
\* codimension-1 faces, so both endpoints of every edge fill_edges inserted
\* are vertices of the complex.
C2_Closure == Created => Closed(complex)

\* C3: at every point during and after the construction by the constructor,
\* filtration(F) <= filtration(S) for every simplex S and face F of S in sc.
C3_Monotone == Monotone(sc)

C3_Witness ==
  \E S \in DOMAIN sc : \E F \in DOMAIN sc :
    /\ Dim(S) = 2 /\ Dim(F) = 1 /\ F \subseteq S
    /\ sc[F] > 0 /\ sc[S] = sc[F]
    /\ \E G \in DOMAIN sc : Dim(G) = 1 /\ G \subseteq S /\ sc[G] < sc[S]

\* C4: in the complex create_complex produces, every vertex of an edge has a
\* filtration value at most that of the edge.
C4_Monotone ==
  Created =>
    \A e \in DOMAIN complex : Dim(e) = 1 =>
      \A v \in e : {v} \in DOMAIN complex => complex[{v}] <= complex[e]

\* C5: on the same table, nbL, alpha and maximum dimension the constructor and
\* create_complex end with the same simplices and the same filtration values.
C5_Equivalence ==
  (Created /\ max_alpha_square = alpha) => complex = sc

\* C6: for alpha1 <= alpha2 every simplex of the complex the constructor
\* builds with alpha1 is in the complex it builds with alpha2 (same table,
\* nbL and limD).
C6_AlphaMonotone ==
  (CtorFinished /\ earlier_runs # <<>>) =>
    /\ earlier_runs[1].alpha <= alpha
    /\ DOMAIN earlier_runs[1].sc \subseteq DOMAIN sc

C6_Witness ==
  /\ CtorFinished /\ earlier_runs # <<>>
  /\ earlier_runs[1].alpha < alpha
  /\ \E S \in DOMAIN earlier_runs[1].sc : Dim(S) = 1
  /\ \E S \in DOMAIN sc : Dim(S) = 2 /\ S \notin DOMAIN earlier_runs[1].sc

\* C7 as stated: in the zero-relaxation scenario the constructor inserts the
\* triangle {0,1,2} with filtration 0, its vertices and edges being in the
\* complex at that moment.
C7_TriangleInserted ==
  CtorFinished =>
    /\ {{0}, {1}, {2}, {0, 1}, {0, 2}, {1, 2}, {0, 1, 2}} \subseteq DOMAIN sc
    /\ sc[{0, 1, 2}] = 0

\* C7 amended: in the zero-relaxation scenario the constructor ends with the
\* vertices {0}, {1}, {2} and the edge {0,1}, all with filtration 0, and with
\* nothing else: the edges {0,2} and {1,2} are never in the complex, so the
\* triangle {0,1,2} is never inserted.
C7_OnlyNearestEdge ==
  /\ {0, 1, 2} \notin DOMAIN sc
  /\ {0, 2} \notin DOMAIN sc /\ {1, 2} \notin DOMAIN sc
  /\ CtorFinished => sc = [S \in {{0}, {1}, {2}, {0, 1}} |-> 0]

C7_Witness ==
  /\ CtorFinished /\ limD >= 2 /\ k = 3
  /\ {0, 1} \in DOMAIN sc

\* C8: in the relaxation-window scenario create_complex on an empty complex
\* ends with the vertices {0}, {1} and the edge {0,1}, and with no simplex
\* that contains landmark 2.
C8_Window ==
  Created =>
    /\ {{0}, {1}, {0, 1}} \subseteq DOMAIN complex
    /\ \A S \in DOMAIN complex : 2 \notin S

C8_Witness == Created /\ max_alpha_square = 5 /\ {0, 1} \in DOMAIN complex

\* C9: the complex create_complex produces has no simplex of dimension
\* greater than limit_dimension.
C9_LimitDimension ==
  Created => \A S \in DOMAIN complex : Dim(S) <= limD

\* C10: the constructor starts the round for dimension k only if the active
\* list is non-empty, k <= limD and k < nbL, it stops at the first k for which
\* one of these fails, and no simplex of the complex has a dimension greater
\* than min(limD, nbL - 1).
C10_RoundGuard ==
  /\ [][pc = "round" =>
          IF active_w # <<>> /\ k <= limD /\ k < nbL
          THEN pc' = "inner" /\ k' = k
          ELSE pc' = "cc_enter"]_vars
  /\ [][k' # k => pc = "inner" /\ pc' = "round" /\ k' = k + 1]_vars
  /\ [](\A S \in DOMAIN sc : Dim(S) <= Min(limD, nbL - 1))

C10_Witness ==
  /\ pc = "cc_enter" /\ k = 2 /\ limD = 2 /\ nbL = 2
  /\ active_w # <<>>
  /\ \E S \in DOMAIN sc : Dim(S) = 1

\* The constructor alone.  It is a sequential program: the step that is
\* enabled is taken.
NextCtor ==
  \/ CtorInit \/ RoundStart \/ NextWitness \/ AfterCall
  \/ Entry \/ LoopDim \/ AfterInclude \/ AfterSkip \/ LoopLeaf

SpecCtor == Init /\ [][NextCtor]_vars /\ WF_vars(NextCtor)

\* C11: the constructor reaches its end; every recursive call of
\* add_all_faces_of_dimension starts at a cursor position strictly greater
\* than the position its caller stands at, and the number of nested recursive
\* calls (the activations above the one the constructor made) never exceeds
\* the length of the witness's list.
C11_Termination ==
  /\ <>CtorFinished
  /\ [](pc = "rec" =>
          /\ \A i \in 2..Len(stack) : stack[i].curr > stack[i - 1].it
          /\ \A i \in 1..Len(stack) : stack[i].it >= stack[i].curr
          /\ Len(stack) - 1 <= Len(table[CurW]))

\* the bound is met: as many nested recursive calls as the list has entries
C11_Witness ==
  /\ pc = "rec" /\ Len(table[CurW]) = 2
  /\ Len(stack) - 1 = Len(table[CurW])
  /\ Top.curr = ListEnd

\* C12: the active list starts with one record per witness and from then
\* on only loses records: a step leaves it as it is or removes one record,
\* so the active witnesses of a later round are among those of an earlier
\* round, and the witness being expanded is always one still in the list.
C12_PoolShrinks ==
  /\ [][pc = "ctor" => active_w' = [i \in 1..nbW |-> i]]_vars
  /\ [][pc # "ctor" =>
          \/ active_w' = active_w
          \/ \E pos \in 1..Len(active_w) :
                active_w' = [i \in 1..(Len(active_w) - 1) |->
                               IF i < pos THEN active_w[i] ELSE active_w[i + 1]]]_vars
  /\ [](pc \in {"rec", "after_call"} => aw_it \in 1..Len(active_w))
  /\ [](\A i, j \in 1..Len(active_w) : i < j => active_w[i] < active_w[j])

\* a witness was erased in round 1 and another one is expanded in round 2
C12_Witness ==
  /\ pc = "rec" /\ k = 2
  /\ nbW = 2 /\ active_w = <<2>>

\* C13: while the constructor expands a witness whose list has exactly one
\* entry the complex does not change (so no simplex of dimension >= 1 comes
\* from it), the call for it is followed by its erasure from the active list,
\* and once round k = 1 is over no such witness is in the active list.
C13_OneEntryWitness ==
  /\ [][(pc = "rec" /\ Len(table[CurW]) = 1) => sc' = sc]_vars
  /\ [][(pc = "after_call" /\ Len(table[CurW]) = 1) =>
          (k = 1 /\ \A i \in 1..Len(active_w') : active_w'[i] # CurW)]_vars
  /\ [](k >= 2 => \A i \in 1..Len(active_w) : Len(table[active_w[i]]) # 1)

\* round 1 is over, a one-entry witness is gone and a longer one is left
C13_Witness ==
  /\ pc = "round" /\ k = 2
  /\ active_w # <<>>
  /\ \E w \in 1..nbW :
       Len(table[w]) = 1 /\ \A i \in 1..Len(active_w) : active_w[i] # w

\* C14: once the round for dimension k is over, no witness whose list has k
\* entries or fewer is in the active list: during round k the witnesses
\* already visited and kept have more than k entries, and from round 2 on
\* every active witness has at least k entries.  The constructor has no
\* error exit: a witness with a short list is erased and the round goes on.
C14_ShortListsRetire ==
  /\ [](k >= 2 => \A i \in 1..Len(active_w) : Len(table[active_w[i]]) >= k)
  /\ [](pc = "inner" =>
          \A i \in 1..(aw_it - 1) : Len(table[active_w[i]]) > k)
  /\ [][(pc = "after_call" /\ Len(table[CurW]) <= k) =>
          (pc' = "inner" /\ \A i \in 1..Len(active_w') : active_w'[i] # CurW)]_vars

\* round 2 is over: a witness with two entries went through round 1 and was
\* erased in round 2, a witness with three entries is still active
C14_Witness ==
  /\ pc = "round" /\ k = 3
  /\ active_w # <<>>
  /\ \E w \in 1..nbW :
       Len(table[w]) = 2 /\ \A i \in 1..Len(active_w) : active_w[i] # w

\* C15: create_complex returns false, the complex being left as it was
\* given, when the complex already has a vertex or max_alpha_square < 0; in
\* every other case it goes on to build the complex and returns true.
C15_ArgumentRejection ==
  /\ [][pc = "cc_enter" =>
          IF NumVertices(complex') > 0 \/ max_alpha_square' < 0
          THEN pc' = "done" /\ cc_result' = FALSE /\ complex' \in GivenComplexes
          ELSE pc' = "fill_vertices" /\ UNCHANGED cc_result]_vars
  /\ [][(pc # "cc_enter" /\ pc' = "done") => cc_result' = TRUE]_vars
  /\ []((pc = "done" /\ cc_result = FALSE) =>
          /\ complex \in GivenComplexes
          /\ (NumVertices(complex) > 0 \/ max_alpha_square < 0))
  /\ []((pc = "done" /\ cc_result = TRUE) => max_alpha_square >= 0)
  /\ [](pc # "done" => cc_result = "none")

\* rejected for a negative max_alpha_square, the complex still empty
C15_Witness ==
  /\ pc = "done" /\ cc_result = FALSE
  /\ max_alpha_square < 0 /\ complex = EmptyComplex
  /\ nbW > 0

\* the largest dimension of a simplex of cx, -1 for an empty complex
MaxDim(cx) ==
  IF DOMAIN cx = {} THEN -1
  ELSE CHOOSE d \in {Dim(S) : S \in DOMAIN cx} : \A S \in DOMAIN cx : Dim(S) <= d

\* C16: when the constructor has finished, and when create_complex has
\* returned true, the dimension given to set_dimension is the largest
\* dimension of a simplex present in the complex.
C16_ReportedDimension ==
  /\ CtorFinished => sc_dim = MaxDim(sc)
  /\ Created => cc_dim = MaxDim(complex)

\* the largest element of a non-empty set of numbers
SetMax(T) == CHOOSE x \in T : \A y \in T : y <= x

\* C17: whenever the expansion by the constructor inserts a new simplex, its
\* last vertex being the landmark at the cursor, at distance d, and the
\* threshold being norelax_dist, the filtration stored is
\* max(F, max(0, d - norelax_dist)) with F the largest filtration among the
\* codimension-1 faces of the simplex; the other simplices keep their values.
C17_FiltrationAssignment ==
  [][(pc = "rec" /\ sc' # sc) =>
       LET S == Range(simplex) \cup {table[CurW][Top.it].l}
           d == table[CurW][Top.it].d
           F == SetMax({sc[S \ {v}] : v \in S})
       IN /\ Top.dim = 0 /\ Top.at = "loop"
          /\ S \notin DOMAIN sc
          /\ \A v \in S : (S \ {v}) \in DOMAIN sc
          /\ sc' = (S :> Max(F, Max(0, d - Top.norelax_dist))) @@ sc]_vars

\* a triangle whose filtration comes from a relaxed edge, and an edge of it
\* that needed no relaxation
C17_Witness ==
  /\ pc = "rec"
  /\ \E S \in DOMAIN sc :
       /\ Dim(S) = 2 /\ sc[S] > 0
       /\ \E e \in DOMAIN sc : Dim(e) = 1 /\ e \subseteq S /\ sc[e] = 0

\* C18: every simplex the constructor inserts while it expands a witness has
\* all its vertices among the first limD + 1 landmarks of the witness's list.
C18_LandmarkPrefix ==
  [][(pc = "rec" /\ sc' # sc) =>
       \A S \in (DOMAIN sc') \ (DOMAIN sc) :
         S \subseteq {table[CurW][i].l : i \in 1..Min(limD + 1, Len(table[CurW]))}]_vars

\* the landmark at the cursor of the current activation passes the test
\* d - alpha <= norelax_dist with the threshold of that activation
Admissible ==
  /\ Top.it < ListEnd
  /\ table[CurW][Top.it].d - alpha <= Top.norelax_dist

\* C19: a landmark is appended to the candidate stack, and a simplex ending
\* with it is inserted, only if it passes the test d - alpha <= norelax_dist
\* with the threshold current at that moment; when the landmark at the cursor
\* fails the test (or the list is exhausted) the activation returns at once,
\* so that no later landmark is considered at that level.
C19_Admissibility ==
  /\ [][Len(simplex') > Len(simplex) =>
          /\ pc = "rec" /\ Top.at = "loop" /\ Admissible
          /\ simplex' = Append(simplex, table[CurW][Top.it].l)]_vars
  /\ [][(pc = "rec" /\ sc' # sc) =>
          /\ Top.at = "loop" /\ Admissible
          /\ \A S \in (DOMAIN sc') \ (DOMAIN sc) :
                S = Range(simplex) \cup {table[CurW][Top.it].l}]_vars
  /\ [][(pc = "rec" /\ Top.at = "loop" /\ ~Admissible) =>
          /\ stack' = SubSeq(stack, 1, Len(stack) - 1)
          /\ simplex' = simplex /\ sc' = sc]_vars
  /\ [][(pc = "rec" /\ Top.at = "loop" /\ Admissible) =>
          Len(stack') >= Len(stack)]_vars

\* the scan of a level stops at a landmark of the list that fails the test,
\* an earlier landmark of that level having passed it
C19_Witness ==
  /\ pc = "rec" /\ Top.at = "loop"
  /\ Top.it > Top.curr /\ Top.it < ListEnd
  /\ ~Admissible

\* C20: in one activation of add_all_faces_of_dimension norelax_dist never
\* increases.  The include-branch call for the landmark at distance d gets
\* the threshold as it was before d; after the landmark the activation and
\* its skip-branch call use min(previous threshold, d), which is the previous
\* threshold when the landmark was admitted through relaxation only.
C20_SlidingThreshold ==
  /\ [][(pc = "rec" /\ Len(stack') >= Len(stack)) =>
          stack'[Len(stack)].norelax_dist <= Top.norelax_dist]_vars
  /\ [][(pc = "rec" /\ Len(stack') = Len(stack) + 1) =>
          LET caller == stack'[Len(stack)]
              callee == stack'[Len(stack')]
              d == table[CurW][Top.it].d
          IN IF caller.at = "inc"
             THEN /\ callee.norelax_dist = Top.norelax_dist
                  /\ caller.norelax_dist = Top.norelax_dist
             ELSE /\ caller.at = "skip"
                  /\ caller.norelax_dist = Min(Top.norelax_dist, d)
                  /\ callee.norelax_dist = Min(Top.norelax_dist, d)
                  /\ d > Top.norelax_dist => caller.norelax_dist = Top.norelax_dist]_vars
  /\ [][(pc = "rec" /\ Top.at = "loop" /\ Top.dim = 0 /\ Len(stack') = Len(stack)) =>
          LET d == table[CurW][Top.it].d
          IN /\ stack'[Len(stack)].norelax_dist = Min(Top.norelax_dist, d)
             /\ stack'[Len(stack)].it = Top.it + 1]_vars
  /\ [][(pc = "rec" /\ Top.at = "skip") =>
          /\ stack'[Len(stack)].norelax_dist = Top.norelax_dist
          /\ stack'[Len(stack)].it = Top.it + 1]_vars

\* at a level with dim > 0 the landmark just passed was admitted through
\* relaxation only, and the threshold is still below its distance
C20_Witness ==
  /\ pc = "rec" /\ Top.at = "loop" /\ Top.dim > 0
  /\ Top.it > Top.curr
  /\ table[CurW][Top.it - 1].d > Top.norelax_dist

\* C21: in the round for dimension k every candidate that reaches the leaf
\* (the dim == 0 loop, where the landmark at the cursor is pushed and
\* all_faces_in is called) has k + 1 vertices: k on the candidate stack
\* before the push.
C21_LeafSize ==
  (pc = "rec" /\ Top.at = "loop" /\ Top.dim = 0 /\ Admissible) =>
    Len(simplex) + 1 = k + 1

\* C22: every simplex the constructor adds during the round for dimension k
\* has dimension k, and a step of round k or later leaves the simplices of
\* dimension < k as they are.
C22_DimensionsIncreasing ==
  [][(pc = "rec" /\ sc' # sc) =>
       /\ \A S \in (DOMAIN sc') \ (DOMAIN sc) : Dim(S) = k
       /\ \A S \in DOMAIN sc : S \in DOMAIN sc' /\ sc'[S] = sc[S]]_vars

\* round 2 has added a triangle
C22_Witness ==
  /\ pc = "rec" /\ k = 2
  /\ \E S \in DOMAIN sc : Dim(S) = 2
  /\ \E S \in DOMAIN sc : Dim(S) = 1 /\ sc[S] > 0

\* the landmarks pushed by the activations stack[1..n] that are inside their
\* include-branch call
RECURSIVE PushedBy(_)
PushedBy(n) ==
  IF n = 0 THEN <<>>
  ELSE IF stack[n].at = "inc"
       THEN Append(PushedBy(n - 1), table[CurW][stack[n].it].l)
       ELSE PushedBy(n - 1)

\* C23: the candidate stack holds exactly the landmarks pushed by the
\* activations that are inside their include-branch call, so a call returns
\* with the candidate stack as it was when the call was made, and the
\* candidate stack is empty after each top-level call.
C23_StackRestored ==
  /\ [](pc = "rec" => simplex = PushedBy(Len(stack)))
  /\ [][(pc = "rec" /\ Len(stack') < Len(stack)) => simplex' = simplex]_vars
  /\ [][(pc = "rec" /\ Len(stack') > Len(stack)) =>
          IF stack'[Len(stack)].at = "inc"
          THEN simplex' = Append(simplex, table[CurW][Top.it].l)
          ELSE IF Top.at = "inc"
               THEN simplex = Append(simplex', table[CurW][Top.it].l)
               ELSE simplex' = simplex]_vars
  /\ [](pc \in {"after_call", "inner", "round", "cc_enter"} => simplex = <<>>)

\* a top-level call of round 2, which pushed two landmarks on its way, has
\* returned true
C23_Witness ==
  /\ pc = "after_call" /\ k = 2 /\ ret
  /\ simplex = <<>>
  /\ \E S \in DOMAIN sc : Dim(S) = 2

\* some leaf candidate of the top-level call in progress (or just finished)
\* has passed all_faces_in: the fact is held by a will_be_active flag, or by
\* the value a call has just returned to its caller
PassedSoFar ==
  IF pc = "after_call" THEN ret
  ELSE \/ \E i \in 1..Len(stack) : stack[i].will_be_active
       \/ Top.at \in {"inc", "skip"} /\ ret

\* the candidate at the leaf has all its codimension-1 faces in the complex
\* (a candidate of one vertex has none to show: its only facet is empty)
LeafPasses ==
  /\ Top.at = "loop" /\ Top.dim = 0 /\ Admissible
  /\ Len(simplex) >= 1
  /\ LET S == Range(simplex) \cup {table[CurW][Top.it].l}
     IN \A v \in S : (S \ {v}) \in DOMAIN sc

\* C24: a top-level call starts with no candidate passed; each step of the
\* expansion records a pass exactly when the leaf candidate has all its
\* codimension-1 faces in the complex, whether or not the candidate is
\* already in the complex; after the call the witness is erased exactly when
\* no candidate passed, and kept, the iterator moving on, otherwise.
C24_RetirementRule ==
  /\ [][(pc = "inner" /\ pc' = "rec") => ~PassedSoFar']_vars
  /\ [][pc = "rec" => (PassedSoFar' <=> (PassedSoFar \/ LeafPasses))]_vars
  /\ [][pc = "after_call" =>
          IF PassedSoFar
          THEN active_w' = active_w /\ aw_it' = aw_it + 1
          ELSE /\ Len(active_w') = Len(active_w) - 1
               /\ \A i \in 1..Len(active_w') : active_w'[i] # CurW
               /\ aw_it' = aw_it]_vars

\* in round 2 a witness is kept although the complex has no triangle: the
\* candidates that passed were already in the complex
C24_Witness ==
  /\ pc = "after_call" /\ k = 2 /\ ret
  /\ \A S \in DOMAIN sc : Dim(S) <= 1

\* the witnesses of the round still to be handled, the current one first,
\* and those already handled and kept
ToVisit == SubSeq(active_w, aw_it, Len(active_w))
Kept == SubSeq(active_w, 1, aw_it - 1)

\* C25: a round starts with every active witness to visit; the witness
\* expanded is the first one still to visit; after its call it leaves the
\* witnesses to visit, the others staying in their order, and joins the kept
\* ones unless it is erased; the round ends only when none is left to visit.
\* Hence each witness active at the start of the round is expanded exactly
\* once, in list order.
C25_OneVisitPerRound ==
  /\ [][(pc = "round" /\ pc' = "inner") => (ToVisit' = active_w /\ active_w' = active_w)]_vars
  /\ [][(pc = "inner" /\ pc' = "rec") =>
          (ToVisit # <<>> /\ UNCHANGED <<active_w, aw_it>>)]_vars
  /\ [][pc = "rec" => UNCHANGED <<active_w, aw_it>>]_vars
  /\ [][pc = "after_call" =>
          /\ pc' = "inner"
          /\ ToVisit' = Tail(ToVisit)
          /\ Kept' = IF ret THEN Append(Kept, Head(ToVisit)) ELSE Kept]_vars
  /\ [][(pc = "inner" /\ pc' = "round") =>
          (ToVisit = <<>> /\ active_w' = active_w)]_vars

\* in round 1 the first witness was erased and the second one, now first in
\* the list, is being expanded
C25_Witness ==
  /\ pc = "rec" /\ k = 1
  /\ nbW = 2 /\ active_w = <<2>> /\ aw_it = 1

\* the witnesses the entries of a map refer to, and the number of entries of
\* a map that refer to witness w
WitnessesOf(entries) == {entries[i].w.witness : i \in 1..Len(entries)}
EntriesOf(entries, w) == Cardinality({i \in 1..Len(entries) : entries[i].w.witness = w})

\* the same for a map given as such
MapWitnessesOf(map) ==
  UNION {{map[key][j].witness : j \in 1..Len(map[key])} : key \in DOMAIN map}
MapEntriesOf(map, w) ==
  Cardinality(UNION {{<<key, j>> : j \in {i \in 1..Len(map[key]) : map[key][i].witness = w}}
                     : key \in DOMAIN map})

\* the entries of the vertex map the second loop of fill_edges has not
\* processed yet
Unprocessed ==
  SubSeq(Entries(prev_dim_map), map_pos + 1, Len(Entries(prev_dim_map)))

\* C26: in the second loop of fill_edges the counter of a witness is the
\* number of its vertex-map entries not processed yet plus the number of its
\* edge-map entries; a witness is erased only when that counter is zero, and
\* no vertex-map entry still to process and no entry of the edge map refers
\* to a witness that is not in the active list.
C26_NoDanglingWitness ==
  /\ [](pc = "fill_edges_map" =>
          /\ \A w \in 1..nbW :
                counter[w] = EntriesOf(Unprocessed, w) + MapEntriesOf(dim1_map, w)
          /\ WitnessesOf(Unprocessed) \subseteq Range(aw_list)
          /\ MapWitnessesOf(dim1_map) \subseteq Range(aw_list))
  /\ [][(pc = "fill_edges_map" /\ aw_list' # aw_list) =>
          LET w == Unprocessed[1].w.witness
          IN /\ counter'[w] = 0
             /\ Range(aw_list') = Range(aw_list) \ {w}
             /\ Len(aw_list') = Len(aw_list) - 1
             /\ MapEntriesOf(dim1_map', w) = 0
             /\ EntriesOf(Tail(Unprocessed), w) = 0]_vars

\* a witness has been erased while entries of the vertex map are still to
\* process and the edge map already has entries
C26_Witness ==
  /\ pc = "fill_edges_map"
  /\ Len(aw_list) < nbW
  /\ Unprocessed # <<>>
  /\ dim1_map # EmptyMap

\* C27: whenever a loop guard of add_all_faces_of_dimension is evaluated,
\* and with it the distance at the cursor read, the cursor is at a position
\* of the witness's list, not at its end.
C27_ReadsInsideList ==
  (pc = "rec" /\ Top.at = "loop") => Top.it < ListEnd

\* C28: the constructor run on the table with its witnesses in another
\* order ends with the same simplices and the same filtration values.
C28_OrderIndependence ==
  (CtorFinished /\ earlier_runs # <<>>) => sc = earlier_runs[1].sc

\* C29: the complex the constructor builds, erasing a witness as soon as its
\* call returns false, has the same simplices and the same filtration values
\* as the complex the same rounds build when no witness is erased.
C29_PruningLosesNothing ==
  (CtorFinished /\ earlier_runs # <<>>) => sc = earlier_runs[1].sc

\* the run without erasure has gone through round 2 with both witnesses, one
\* of which has a list of one entry and is erased in round 1 by the
\* constructor; the complex has a triangle
C29_Witness ==
  /\ CtorFinished /\ earlier_runs # <<>>
  /\ k = 3 /\ Len(active_w) = 2
  /\ \E w \in 1..nbW : Len(table[w]) = 1
  /\ \E S \in DOMAIN sc : Dim(S) = 2

\* C30: every simplex of the complex the constructor builds has a filtration
\* value f with 0 <= f <= alpha; with alpha = 0 every filtration value is 0.
C30_FiltrationRange ==
  /\ \A S \in DOMAIN sc : 0 <= sc[S] /\ sc[S] <= alpha
  /\ alpha = 0 => \A S \in DOMAIN sc : sc[S] = 0

\* the constructor has finished with alpha > 0 and a triangle whose
\* filtration value is alpha, next to simplices of filtration 0
C30_Witness ==
  /\ CtorFinished /\ alpha > 0
  /\ \E S \in DOMAIN sc : Dim(S) = 2 /\ sc[S] = alpha
  /\ \E S \in DOMAIN sc : Dim(S) = 1 /\ sc[S] = 0

====
